---------------------------- MODULE Spec2Model ----------------------------
(***************************************************************************)
(* DICOMFetch: the query/fetch facade (queryinterface.Interface) over the  *)
(* dcm4che3 command line backends (pydcm4che3.finder / geter) and the web  *)
(* backend (dicomweb, not part of the sources modelled here).              *)
(*                                                                         *)
(* One call of Interface.query or Interface.fetch is followed from the     *)
(* moment the caller makes it to the moment it returns, raises or is       *)
(* abandoned.  The backend process, its output lines, its exit code and    *)
(* the result files are the environment: they are chosen step by step.     *)
(*                                                                         *)
(* Two facts of the sources shape the model:                               *)
(*  - queryinterface imports `getter` from pydcm4che3, which defines       *)
(*    `geter`; the model binds the name to geter, the only retrieve        *)
(*    generator of that module;                                            *)
(*  - combo_cmd(cmd) reads `level` and `query_map`, which are neither its  *)
(*    parameters nor names the module binds.  namesBound says whether the  *)
(*    embedding program has bound them as module globals (to the values of *)
(*    the call); when it has not, combo_cmd raises NameError.              *)
(***************************************************************************)
EXTENDS Integers, Sequences, FiniteSets, TLC

\* Bounds of the model.
MaxEvents == 3
MaxCompleted == 2
MaxFiles == 2

(***************************************************************************)
(* Values                                                                  *)
(***************************************************************************)
Levels == {"patient", "study", "series", "image"}

Facilities == {"W", "F", "G"}

\* The one server of the directory, and a name that is not in it.
KnownServer == "Server"
ServerNames == {KnownServer, "Nowhere"}

\* Python's None, for response and server_mark.
None == [cls |-> "None"]
NoMark == "None"

\* pydcm4che3.combo_cmd: level_map
level_map(lv) ==
    CASE lv = "patient" -> <<[opt |-> "-M", arg |-> "PatientRoot", value |-> ""],
                             [opt |-> "-L", arg |-> "PATIENT", value |-> ""]>>
      [] lv = "study"   -> <<[opt |-> "-M", arg |-> "StudyRoot", value |-> ""],
                             [opt |-> "-L", arg |-> "STUDY", value |-> ""]>>
      [] lv = "series"  -> <<[opt |-> "-M", arg |-> "PatientRoot", value |-> ""],
                             [opt |-> "-L", arg |-> "SERIES", value |-> ""]>>
      [] lv = "image"   -> <<[opt |-> "-M", arg |-> "PatientRoot", value |-> ""],
                             [opt |-> "-L", arg |-> "IMAGE", value |-> ""]>>

\* pydcm4che3.combo_cmd: level_required_keys_map
level_required_keys_map(lv) ==
    CASE lv = "patient" -> <<"PatientName", "PatientID", "PatientBirthDate", "PatientSex">>
      [] lv = "study"   -> <<"PatientID", "StudyID", "StudyInstanceUID", "StudyDate",
                             "StudyDescription">>
      [] lv = "series"  -> <<"PatientID", "StudyInstanceUID", "Modality", "SeriesNumber",
                             "SeriesInstanceUID", "SeriesDescription", "BodyPartExamined">>
      [] lv = "image"   -> <<"PatientID", "StudyInstanceUID", "SeriesInstanceUID",
                             "InstanceNumber", "SOPInstanceUID">>

\* '"%s"' % k for the keys the model's query maps use.
Quote(k) ==
    CASE k = "PatientID" -> "\"PatientID\""
      [] k = "Modality"  -> "\"Modality\""
      [] k = "StudyDate" -> "\"StudyDate\""
      [] OTHER           -> "\"?\""

\* A directive of the command line: ['-r', key] or ['-m', 'key=value'].
Ret(k) == [opt |-> "-r", arg |-> k, value |-> ""]
Flt(k, v) == [opt |-> "-m", arg |-> k, value |-> v]

\* list.remove(k): the list without the first occurrence of k.
RECURSIVE Remove(_, _)
Remove(s, k) ==
    IF s = <<>> THEN <<>>
    ELSE IF Head(s) = k THEN Tail(s)
    ELSE <<Head(s)>> \o Remove(Tail(s), k)

InSeq(s, k) == \E i \in 1..Len(s) : s[i] = k

\* The loop over query_map.items() of combo_cmd, from item i on: the command
\* line so far and the mandatory keys still to be added.
RECURSIVE ComboItems(_, _, _, _, _)
ComboItems(qm, i, cmd, req, quotes) ==
    IF i > Len(qm) THEN [cmd |-> cmd, req |-> req]
    ELSE LET k == qm[i][1]
             v == qm[i][2]
             kq == IF quotes THEN Quote(k) ELSE k
         IN  IF v = ""
             THEN ComboItems(qm, i + 1, Append(cmd, Ret(k)), req, quotes)
             ELSE ComboItems(qm, i + 1, Append(cmd, Flt(kq, v)),
                             IF InSeq(req, kq) THEN Remove(req, kq) ELSE req, quotes)

RetAll(keys) == [i \in 1..Len(keys) |-> Ret(keys[i])]

\* pydcm4che3.combo_cmd, with the names it reads made parameters.
combo_cmd(cmd, lv, qm, quotes) ==
    LET r == ComboItems(qm, 1, cmd \o level_map(lv), level_required_keys_map(lv), quotes)
    IN  r.cmd \o RetAll(r.req)

(***************************************************************************)
(* Progress lines and their parsers                                        *)
(***************************************************************************)
\* A field of a line is the digit string the pattern captured, as the
\* sequence of its digits' values (A-F are 10-15).
RECURSIVE IntOf(_, _)
IntOf(digits, base) ==
    IF digits = <<>> THEN 0
    ELSE IntOf(SubSeq(digits, 1, Len(digits) - 1), base) * base + digits[Len(digits)]

CompletedFields == {<<c>> : c \in 0..MaxCompleted}
WarningFields == {<<0>>, <<1, 0>>}
StatusFields == {<<0>>, <<1, 10>>}

\* Lines of getscu output: one matching the C-GET-RSP pattern, one matching
\* the C-STORE-RSP pattern, or any other text.
CGetLines ==
    [kind : {"C-GET-RSP"}, pcid : {<<1>>}, completed : CompletedFields,
     failed : {<<0>>}, warning : WarningFields, status : StatusFields]
CStoreLines == [kind : {"C-STORE-RSP"}, pcid : {<<8, 7>>}, status : StatusFields]
OtherLines == {[kind |-> "other"]}
Lines == CGetLines \cup CStoreLines \cup OtherLines

\* pydcm4che3._parse_cget_response; the tuple is structures.CGetResponse.
parse_cget_response(line) ==
    IF line.kind = "C-GET-RSP"
    THEN [cls |-> "structures.CGetResponse",
          pcid |-> IntOf(line.pcid, 10),
          remaining |-> 0,
          completed |-> IntOf(line.completed, 10),
          failed |-> IntOf(line.failed, 10),
          warning |-> IntOf(line.warning, 10),
          status |-> IntOf(line.warning, 16)]
    ELSE None

\* pydcm4che3._parse_cstore_response; the tuple is structures.CStoreResponse.
parse_cstore_response(line) ==
    IF line.kind = "C-STORE-RSP"
    THEN [cls |-> "structures.CStoreResponse",
          pcid |-> IntOf(line.pcid, 10),
          status |-> IntOf(line.status, 16)]
    ELSE None

\* The body of geter's loop over subproc.stdout for one line: the response it
\* yields, or None when the line matches neither pattern.
geter_line(line) ==
    IF parse_cget_response(line) # None THEN parse_cget_response(line)
    ELSE parse_cstore_response(line)

(***************************************************************************)
(* Interface.fetch and Interface.query: the pure parts                     *)
(***************************************************************************)
\* fetch_mark with the two tests in the other order: the tool first.
fetch_mark_tool_first(facilities) ==
    IF "G" \in facilities THEN "G"
    ELSE IF "W" \in facilities THEN "W"
    ELSE NoMark

\* Interface.fetch, lines 84-88: the facility the call is served through.
fetch_mark(facilities) ==
    IF "W" \in facilities THEN "W"
    ELSE IF "G" \in facilities THEN "G"
    ELSE NoMark

\* Interface.query, lines 122-125; with neither facility the local name
\* server_mark stays unbound.
Unbound == "unbound"
query_mark(facilities) ==
    IF "W" \in facilities THEN "W"
    ELSE IF "F" \in facilities THEN "F"
    ELSE Unbound

\* queryinterface.query_level_souported: the function a facility and a level
\* select (lines 28-41).
WebFind(lv) ==
    CASE lv = "patient" -> "rst_pat_level_find"
      [] lv = "study"   -> "rst_stu_level_find"
      [] lv = "series"  -> "rst_ser_level_find"
      [] lv = "image"   -> "rst_img_level_find"
query_level_souported(mark, lv) == IF mark = "W" THEN WebFind(lv) ELSE "finder"

\* fetch_step with the two fields of a C-GET response taken for each other.
fetch_step_swapped(c, r, resp) ==
    IF resp.cls = "queryinterface.CGetResponse"
    THEN [completed |-> resp.remaining, remaining |-> resp.completed, yields |-> TRUE]
    ELSE IF resp.cls = "queryinterface.CStoreResponse"
    THEN [completed |-> c + 1, remaining |-> r, yields |-> TRUE]
    ELSE [completed |-> c, remaining |-> r, yields |-> FALSE]

\* The body of fetch's loop for one response: type(response) is compared
\* with the namedtuple classes queryinterface itself defines (lines 19-26).
fetch_step(c, r, resp) ==
    IF resp.cls = "queryinterface.CGetResponse"
    THEN [completed |-> resp.completed, remaining |-> resp.remaining, yields |-> TRUE]
    ELSE IF resp.cls = "queryinterface.CStoreResponse"
    THEN [completed |-> c + 1, remaining |-> r, yields |-> TRUE]
    ELSE [completed |-> c, remaining |-> r, yields |-> FALSE]

\* Interface.fetch, lines 112-115: what the generator ends with once
\* fetch_iter is exhausted.
fetch_end(resp) ==
    IF resp = None THEN [outcome |-> "return", line |-> 113]
    ELSE IF resp.status # 0 THEN [outcome |-> "QIError", line |-> 115]
    ELSE [outcome |-> "return", line |-> 115]

\* geter_raises without the test of the exit code.
geter_raises_never(rc) == FALSE

\* geter, lines 297-300: whether the generator ends by raising once stdout is
\* exhausted and the process has been waited for.
geter_raises(rc) == rc # 0

IsRetrieve(resp) == resp.cls \in {"queryinterface.CGetResponse", "structures.CGetResponse"}

\* Parser.tag_parser returns the dict _tags; a record parser returns objects.
parser_records(p) == IF p = "tag_parser" THEN "dict" ELSE "object"

\* sorted(res, key=attrgetter(ording_key)): attrgetter raises AttributeError on
\* the first record when the records are dicts, which have no such attribute.
sorted_raises(res, key, kind) == key # "None" /\ res # <<>> /\ kind = "dict"

\* sorted(res, key=attrgetter(ording_key)) on records reduced to their key.
RECURSIVE Insert(_, _)
Insert(s, x) ==
    IF s = <<>> THEN <<x>>
    ELSE IF x < Head(s) THEN <<x>> \o s
    ELSE <<Head(s)>> \o Insert(Tail(s), x)

RECURSIVE sorted(_)
sorted(s) == IF s = <<>> THEN <<>> ELSE Insert(sorted(SubSeq(s, 1, Len(s) - 1)), s[Len(s)])

(***************************************************************************)
(* Inputs                                                                  *)
(***************************************************************************)
QueryLevels == Levels \cup {"bogus"}
FetchLevels == {"series", "bogus"}

QueryMaps ==
    { <<>>,
      << <<"PatientID", "123">>, <<"Modality", "">> >>,
      << <<"Modality", "CT">> >>,
      << <<"StudyDate", "20180205">> >>,
      << <<"PatientID", "">> >> }
FetchQueryMaps == { <<>>, << <<"PatientID", "123">>, <<"Modality", "">> >> }

OrdingKeys == {"None", "SeriesNumber"}

\* The parser argument of query: Parser.tag_parser, whose records are dicts, or
\* a parser of the caller whose records carry the tags as attributes.
Parsers == {"tag_parser", "record_parser"}
RecordKinds == {"dict", "object"}

\* What the web iterator yields (dicomweb.rst_ser_level_get): progress
\* events of the classes fetch recognises.
WebEvents ==
    [cls : {"queryinterface.CGetResponse"}, pcid : {1}, remaining : {0},
     completed : 0..MaxCompleted, failed : {0}, warning : {0}, status : {0, 257}]
    \cup [cls : {"queryinterface.CStoreResponse"}, pcid : {1}, status : {0, 257}]

RECURSIVE SeqsUpTo(_, _)
SeqsUpTo(S, n) ==
    IF n = 0 THEN {<<>>}
    ELSE SeqsUpTo(S, n - 1) \cup {Append(s, x) : s \in SeqsUpTo(S, n - 1), x \in S}

\* The result files of a find: 0 is a file the parser raises on, 1 and 2 are
\* records, named by the value of their ordering attribute.
FileSets == SeqsUpTo(0..2, MaxFiles)
ResultSets == SeqsUpTo(1..2, MaxFiles)

\* geter has not read a line yet.
NoLine == [kind |-> "none"]

(***************************************************************************)
(* State                                                                   *)
(***************************************************************************)
VARIABLES
    aettable,       \* the directory: server name -> facilities
    USEQUOTES,      \* pydcm4che3.USEQUOTES, set at import
    namesBound,     \* whether level and query_map are bound for combo_cmd
    op,             \* "idle", "query", "fetch", or "geter" (geter iterated directly)
    servername, level, query_map, ording_key,   \* the arguments of the call
    parser,         \* query: the parser argument, by the records it makes
    pc,             \* where the call is
    server_mark,
    invoked,        \* the backend functions the call has invoked, in order
    cmd,            \* find_cmd / get_cmd once built
    tmpdir,         \* "none", "exists" or "removed"
    subproc,        \* "none", "running" or "exited"
    returncode,
    linecount, responsecount,
    curline,        \* geter: the line of subproc.stdout its loop is at
    completed, remaining, response,
    nobserved,      \* responses fetch has taken from fetch_iter
    emitted,        \* the snapshots fetch has yielded
    retrieved,      \* history: the completed fields of the C-GET responses observed
    outcome,        \* how the call ended: "none", "return" or the exception
    raisedAt,       \* the source line of the raise or return
    result          \* what query returned

vars == <<aettable, USEQUOTES, namesBound, op, servername, level, query_map,
          ording_key, parser, pc, server_mark, invoked, cmd, tmpdir, subproc, returncode,
          linecount, curline, responsecount, completed, remaining, response, nobserved,
          emitted, retrieved, outcome, raisedAt, result>>

env == <<aettable, USEQUOTES, namesBound>>
args == <<op, servername, level, query_map, ording_key, parser>>
agg == <<completed, remaining, response, nobserved, emitted, retrieved>>
proc == <<subproc, returncode, linecount, curline, responsecount>>

Init ==
    /\ aettable \in [{KnownServer} -> SUBSET Facilities]
    /\ USEQUOTES \in BOOLEAN
    /\ namesBound \in BOOLEAN
    /\ op = "idle" /\ servername = "" /\ level = "" /\ query_map = <<>>
    /\ ording_key = "None"
    /\ parser = "None"
    /\ pc = "idle"
    /\ server_mark = NoMark
    /\ invoked = <<>>
    /\ cmd = <<>>
    /\ tmpdir = "none"
    /\ subproc = "none"
    /\ returncode = 0
    /\ linecount = 0 /\ responsecount = 0
    /\ curline = NoLine
    /\ completed = 0 /\ remaining = -1 /\ response = None
    /\ nobserved = 0
    /\ emitted = <<>> /\ retrieved = <<>>
    /\ outcome = "none"
    /\ raisedAt = 0
    /\ result = <<>>

\* The call ends: it returns or raises at the given line.
Ends(o, line) ==
    /\ pc' = IF o = "return" THEN "done" ELSE "raised"
    /\ outcome' = o
    /\ raisedAt' = line

Opt(o, a) == [opt |-> o, arg |-> a, value |-> ""]

(***************************************************************************)
(* Interface.fetch                                                         *)
(***************************************************************************)
\* The caller calls fetch(...): Python builds the generator and runs nothing.
FetchCall(sn, lv, qm) ==
    /\ pc = "idle"
    /\ op' = "fetch" /\ servername' = sn /\ level' = lv /\ query_map' = qm
    /\ pc' = "created"
    /\ UNCHANGED <<env, ording_key, parser, server_mark, invoked, cmd, tmpdir, proc, agg,
                   outcome, raisedAt, result>>

\* get_cmd as geter builds it; contexts says whether the store-tcs file exists.
get_cmd(lv, qm, quotes, contexts) ==
    combo_cmd(<<Opt("prog", "getscu"), Opt("--bind", "localaet"),
                Opt("--connect", KnownServer)>>, lv, qm, quotes)
    \o <<Opt("--directory", "save_dir")>>
    \o (IF contexts THEN <<Opt("--store-tcs", "CONTEXTS")>> ELSE <<>>)

\* geter from its first line to its loop over the lines of the process it has
\* started (lines 271-284); combo_cmd raises when the names it reads are unbound.
GeterStarts ==
    IF ~namesBound
    THEN /\ Ends("NameError", 222)
         /\ UNCHANGED <<cmd, subproc>>
    ELSE /\ \E contexts \in BOOLEAN :
              cmd' = get_cmd(level, query_map, USEQUOTES, contexts)
         /\ subproc' = "running"
         /\ pc' = "running"
         /\ UNCHANGED <<outcome, raisedAt>>

\* The first next() on the generator: fetch runs from its first line to the
\* head of its loop over fetch_iter, and geter (a generator too) from its
\* first line to its loop over the lines of the process it has started.
FetchStart ==
    /\ pc = "created" /\ op = "fetch"
    /\ IF servername \notin DOMAIN aettable
       THEN /\ Ends("QIError", 80)
            /\ UNCHANGED <<server_mark, invoked, cmd, subproc>>
       ELSE LET mark == fetch_mark(aettable[servername]) IN
            /\ server_mark' = mark
            /\ IF mark = NoMark \/ level \notin Levels
               THEN \* fetch_level_souported[server_mark][level]
                    /\ Ends("KeyError", 89)
                    /\ UNCHANGED <<invoked, cmd, subproc>>
               ELSE IF mark = "W"
               THEN /\ invoked' = Append(invoked, "rst_ser_level_get")
                    /\ pc' = "running"
                    /\ UNCHANGED <<cmd, subproc, outcome, raisedAt>>
               ELSE /\ invoked' = Append(invoked, "getter")
                    /\ GeterStarts
    /\ UNCHANGED <<env, args, tmpdir, returncode, linecount, curline, responsecount, agg, result>>

\* fetch takes one response from fetch_iter: lines 104-111.
Observe(resp) ==
    LET s == fetch_step(completed, remaining, resp) IN
    /\ response' = resp
    /\ nobserved' = nobserved + 1
    /\ retrieved' = IF IsRetrieve(resp) THEN Append(retrieved, resp.completed) ELSE retrieved
    /\ completed' = s.completed
    /\ remaining' = s.remaining
    /\ emitted' = IF s.yields THEN Append(emitted, <<s.completed, s.remaining>>)
                  ELSE emitted
    /\ pc' = IF s.yields THEN "yielded" ELSE "running"

Pulling == pc \in {"running", "yielded"}

\* geter is running: under fetch on a G server, or iterated by the caller.
GeterRuns == Pulling /\ (op = "geter" \/ (op = "fetch" /\ server_mark = "G"))

\* The process writes one more line; geter's loop body runs on it (lines
\* 284-294), and fetch's loop body on the response it yields, if any.  A
\* caller iterating geter itself gets the response.
GeterLine(line) ==
    /\ GeterRuns
    /\ linecount < MaxEvents
    /\ linecount' = linecount + 1
    /\ curline' = line
    /\ IF geter_line(line) = None
       THEN /\ pc' = "running"
            /\ UNCHANGED <<responsecount, agg>>
       ELSE /\ responsecount' = responsecount + 1
            /\ IF op = "fetch"
               THEN Observe(geter_line(line))
               ELSE /\ pc' = "yielded"
                    /\ UNCHANGED agg
    /\ UNCHANGED <<env, args, server_mark, invoked, cmd, tmpdir, subproc, returncode,
                   outcome, raisedAt, result>>

\* The process closes its output and exits with rc: geter's lines 297-300,
\* then fetch's lines 112-115 when geter ends without raising.
GeterEOF(rc) ==
    /\ GeterRuns
    /\ subproc' = "exited"
    /\ returncode' = rc
    /\ IF geter_raises(rc) THEN Ends("QIError", 299)
       ELSE IF op = "fetch" THEN Ends(fetch_end(response).outcome, fetch_end(response).line)
       ELSE Ends("return", 300)
    /\ UNCHANGED <<env, args, server_mark, invoked, cmd, tmpdir, linecount, curline,
                   responsecount, agg, result>>

\* The web iterator yields one more event.
WebEvent(ev) ==
    /\ op = "fetch" /\ Pulling /\ server_mark = "W"
    /\ nobserved < MaxEvents
    /\ Observe(ev)
    /\ UNCHANGED <<env, args, server_mark, invoked, cmd, tmpdir, proc, outcome,
                   raisedAt, result>>

\* The web iterator is exhausted: fetch's lines 112-115.
WebEnd ==
    /\ op = "fetch" /\ Pulling /\ server_mark = "W"
    /\ Ends(fetch_end(response).outcome, fetch_end(response).line)
    /\ UNCHANGED <<env, args, server_mark, invoked, cmd, tmpdir, proc, agg, result>>

\* The caller closes or drops the generator while it is suspended (before its
\* first next(), or at a yield): GeneratorExit is raised at the yield of
\* fetch, and at the yield of geter when it is closed or dropped.  Neither
\* generator handles it, and nothing terminates or waits for the process.
Close ==
    /\ op \in {"fetch", "geter"} /\ pc \in {"created", "yielded"}
    /\ pc' = "closed"
    /\ outcome' = "GeneratorExit"
    /\ UNCHANGED <<env, args, server_mark, invoked, cmd, tmpdir, subproc, returncode, linecount, curline,
                   responsecount, agg, raisedAt, result>>

(***************************************************************************)
(* pydcm4che3.geter iterated by the caller                                 *)
(***************************************************************************)
GeterCall(lv, qm) ==
    /\ pc = "idle"
    /\ op' = "geter" /\ level' = lv /\ query_map' = qm
    /\ pc' = "created"
    /\ UNCHANGED <<env, servername, ording_key, parser, server_mark, invoked, cmd, tmpdir,
                   proc, agg, outcome, raisedAt, result>>

\* The first next() on geter.
GeterFirstNext ==
    /\ pc = "created" /\ op = "geter"
    /\ GeterStarts
    /\ UNCHANGED <<env, args, server_mark, invoked, tmpdir, returncode, linecount, curline,
                   responsecount, agg, result>>

(***************************************************************************)
(* Interface.query and pydcm4che3.finder                                   *)
(***************************************************************************)
find_cmd(lv, qm, quotes) ==
    combo_cmd(<<Opt("prog", "findscu"), Opt("--bind", "localaet"),
                Opt("--connect", KnownServer)>>, lv, qm, quotes)
    \o <<Opt("-X", ""), Opt("-I", ""), Opt("--out-dir", "tmpdir"),
         Opt("--out-file", "match")>>

\* query, lines 155-157.
query_return(res, key) == IF key # "None" THEN sorted(res) ELSE res

\* The caller calls query(...): the call runs to its end through the web
\* backend, or to finder's wait for the process it has started.
QueryCall(sn, lv, key, p, qm) ==
    /\ pc = "idle"
    /\ op' = "query" /\ servername' = sn /\ level' = lv /\ query_map' = qm
    /\ ording_key' = key /\ parser' = p
    /\ IF sn \notin DOMAIN aettable
       THEN \* server = self.aettable[servername]
            /\ Ends("KeyError", 121)
            /\ UNCHANGED <<server_mark, invoked, cmd, tmpdir, subproc, result>>
       ELSE LET mark == query_mark(aettable[sn]) IN
            /\ server_mark' = mark
            /\ IF mark = Unbound
               THEN /\ Ends("UnboundLocalError", 129)
                    /\ UNCHANGED <<invoked, cmd, tmpdir, subproc, result>>
               ELSE IF lv \notin Levels
               THEN /\ Ends("Exception", 130)
                    /\ UNCHANGED <<invoked, cmd, tmpdir, subproc, result>>
               ELSE IF mark = "W"
               THEN /\ invoked' = Append(invoked, query_level_souported(mark, lv))
                    \* the web finder's records are of either kind
                    /\ \E res \in ResultSets, kind \in RecordKinds :
                          IF sorted_raises(res, key, kind)
                          THEN Ends("AttributeError", 156) /\ UNCHANGED result
                          ELSE Ends("return", 157) /\ result' = query_return(res, key)
                    /\ UNCHANGED <<cmd, tmpdir, subproc>>
               ELSE /\ invoked' = Append(invoked, query_level_souported(mark, lv))
                    /\ tmpdir' = "exists"
                    /\ IF ~namesBound
                       THEN /\ Ends("NameError", 222)
                            /\ UNCHANGED <<cmd, subproc, result>>
                       ELSE /\ cmd' = find_cmd(lv, qm, USEQUOTES)
                            /\ subproc' = "running"
                            /\ pc' = "finding"
                            /\ UNCHANGED <<outcome, raisedAt, result>>
    /\ UNCHANGED <<env, returncode, linecount, curline, responsecount, agg>>

\* finder, lines 255-267, from the exit of the process on: what becomes of
\* the temporary directory, and how the call ends.
finder_end(rc, files, key, p) ==
    IF rc # 0 THEN [outcome |-> "QIError", line |-> 257, tmpdir |-> "exists"]
    ELSE IF InSeq(files, 0) THEN [outcome |-> "ParserError", line |-> 261, tmpdir |-> "exists"]
    ELSE IF sorted_raises(files, key, parser_records(p))
    THEN [outcome |-> "AttributeError", line |-> 265, tmpdir |-> "removed"]
    ELSE [outcome |-> "return", line |-> 157, tmpdir |-> "removed"]

\* The find process exits with rc, leaving the given files in tmpdir.
FinderExit(rc, files) ==
    /\ op = "query" /\ pc = "finding"
    /\ subproc' = "exited"
    /\ returncode' = rc
    /\ tmpdir' = finder_end(rc, files, ording_key, parser).tmpdir
    /\ Ends(finder_end(rc, files, ording_key, parser).outcome,
            finder_end(rc, files, ording_key, parser).line)
    /\ result' = IF finder_end(rc, files, ording_key, parser).outcome = "return"
                 THEN \* sorted by finder (lines 264-266), then by query
                      query_return(query_return(files, ording_key), ording_key)
                 ELSE result
    /\ UNCHANGED <<env, args, server_mark, invoked, cmd, linecount, curline, responsecount, agg>>

ExitCodes == {0, 1}

Next ==
    \/ \E sn \in ServerNames, lv \in FetchLevels, qm \in FetchQueryMaps : FetchCall(sn, lv, qm)
    \/ FetchStart
    \/ \E line \in Lines : GeterLine(line)
    \/ \E rc \in ExitCodes : GeterEOF(rc)
    \/ \E ev \in WebEvents : WebEvent(ev)
    \/ WebEnd
    \/ Close
    \/ \E lv \in Levels, qm \in FetchQueryMaps : GeterCall(lv, qm)
    \/ GeterFirstNext
    \/ \E sn \in ServerNames, lv \in QueryLevels, key \in OrdingKeys, p \in Parsers,
          qm \in QueryMaps :
          QueryCall(sn, lv, key, p, qm)
    \/ \E rc \in ExitCodes, files \in FileSets : FinderExit(rc, files)

Spec == Init /\ [][Next]_vars

(***************************************************************************)
(* Properties                                                              *)
(***************************************************************************)
Ended == pc \in {"done", "raised"}

NonDecreasing(s) == \A i \in 1..Len(s) : \A j \in i..Len(s) : s[i] <= s[j]

EmittedCompleted == [i \in 1..Len(emitted) |-> emitted[i][1]]

\* C1: a fetch that observed at least one event and whose last observed event
\* has a non-zero status ends by raising the retrieval failure, after it has
\* yielded one snapshot for every event it observed.
C1_FailureAfterAllProgress ==
    (op = "fetch" /\ Ended /\ nobserved > 0 /\ response.status # 0)
        => (outcome = "QIError" /\ Len(emitted) = nobserved)

\* C2, as stated: whenever the completed fields of the C-GET responses observed
\* so far are non-decreasing in arrival order, the completed components of the
\* snapshots yielded so far are non-decreasing.
C2_MonotoneForMonotoneRetrieves ==
    NonDecreasing(retrieved) => NonDecreasing(EmittedCompleted)

\* C2, amended: a snapshot's completed component is at least that of the
\* snapshot before it whenever the event it is yielded for is a C-STORE
\* response, or a C-GET response whose completed field is at least the count
\* reached when it arrives.
C2_MonotoneWhenRetrieveCovers ==
    [][(Len(emitted') = Len(emitted) + 1 /\ Len(emitted) >= 1
        /\ (IsRetrieve(response') => response'.completed >= completed))
       => emitted'[Len(emitted')][1] >= emitted[Len(emitted)][1]]_vars

\* S, S, R(completed = 2): a C-GET response arrives after two C-STORE responses
\* have incremented the counter, and the snapshots are (1,-1), (2,-1), (2,0).
C2_Witness ==
    /\ emitted = << <<1, -1>>, <<2, -1>>, <<2, 0>> >>
    /\ retrieved = <<2>>

\* The snapshot section 4.3 gives for a response, from the state before it.
RuleSnapshot(c, r, resp) ==
    IF IsRetrieve(resp) THEN <<resp.completed, 0>> ELSE <<c + 1, r>>

\* C3: from completed = 0 and remaining = -1, every response fetch takes from
\* fetch_iter makes it yield exactly one snapshot, the one the step rule gives.
C3_OneSnapshotPerEvent ==
    [][nobserved' = nobserved + 1
       => emitted' = Append(emitted, RuleSnapshot(completed, remaining, response'))]_vars

\* C4: once the find process has exited, however the query call ends (return,
\* non-zero exit code, a result file that fails to parse), the temporary
\* directory of the call is gone when it ends.
C4_TmpdirRemoved ==
    (op = "query" /\ Ended /\ subproc = "exited") => tmpdir = "removed"

\* C5: whenever the sequence over the backend's progress has ended, by
\* exhaustion, by an exception or by the caller closing it, the backend process
\* that was started for it is no longer running.
C5_ProcessReleased ==
    (op \in {"fetch", "geter"} /\ pc \in {"done", "raised", "closed"})
        => subproc # "running"

\* The body of the call has run: query runs when called, fetch at the first
\* next() (a generator closed after that was closed at a yield).
Started ==
    \/ op = "query" /\ pc # "idle"
    \/ op = "fetch" /\ (pc \in {"running", "yielded", "done", "raised"}
                         \/ (pc = "closed" /\ emitted # <<>>))

\* The call got past the lookups of the server and of the level.
Dispatched ==
    /\ Started
    /\ servername \in DOMAIN aettable
    /\ level \in Levels

\* C6, as stated: when at least one event was observed, the fetch ends in
\* success exactly when the last observed event has status 0, whatever the exit
\* code of the process.
C6_StatusAloneDecides ==
    (op = "fetch" /\ Ended /\ nobserved > 0)
        => (outcome = "return" <=> response.status = 0)

\* C6, amended: a fetch that got as far as its backend ends in success exactly
\* when the process, if there is one, exited with code 0 and the last observed
\* event, if there is one, has status 0; it ends in the retrieval failure
\* otherwise.
C6_ExitCodeAndStatusDecide ==
    (op = "fetch" /\ Ended /\ (subproc = "exited" \/ server_mark = "W") /\ Dispatched)
        => /\ outcome = "return" <=>
                 /\ (subproc = "exited" => returncode = 0)
                 /\ (nobserved > 0 => response.status = 0)
           /\ outcome \in {"return", "QIError"}

\* The last observed event has status 0, the process exited non-zero, and the
\* fetch ended in the retrieval failure raised by geter.
C6_Witness ==
    /\ op = "fetch" /\ Ended /\ nobserved > 0 /\ response.status = 0
    /\ subproc = "exited" /\ returncode # 0
    /\ outcome = "QIError" /\ raisedAt = 299

\* The directives of a command line that name key k, quoted or not.
Naming(c, k) == {i \in 1..Len(c) : c[i].opt \in {"-r", "-m"} /\ c[i].arg \in {k, Quote(k)}}

\* C7: in the command line built for a call, every mandatory key of the level
\* that the caller supplied, with a value or with the empty value, is named by
\* exactly one directive.
C7_SuppliedKeyOnce ==
    (cmd # <<>> /\ level \in Levels)
        => \A i \in 1..Len(query_map) :
               InSeq(level_required_keys_map(level), query_map[i][1])
                   => Cardinality(Naming(cmd, query_map[i][1])) = 1

\* C8: a query or fetch naming a server that is not in the directory ends in
\* the library's own error, with no backend invoked.
C8_UnknownServer ==
    (op \in {"query", "fetch"} /\ Ended /\ servername \notin DOMAIN aettable)
        => (outcome = "QIError" /\ invoked = <<>>)

NoFacility ==
    /\ servername \in DOMAIN aettable
    /\ "W" \notin aettable[servername]
    /\ (op = "query" => "F" \notin aettable[servername])
    /\ (op = "fetch" => "G" \notin aettable[servername])

\* C9: a query or fetch on a server that advertises none of the facilities the
\* operation needs ends in the error of the 'supports neither' branch (line
\* 102 of fetch, line 154 of query), with no backend invoked.
C9_UnsupportedServer ==
    (op \in {"query", "fetch"} /\ Ended /\ NoFacility)
        => (raisedAt \in {102, 154} /\ invoked = <<>>)

\* C10: a call that reaches dispatch on a server advertising a facility the
\* operation can use invokes exactly one backend: the web backend whenever W is
\* advertised, the find tool (query) or the get tool (fetch) only when it is
\* advertised without W.  No call invokes more than one backend, and a call
\* that does not reach dispatch invokes none.
C10_BackendSelection ==
    /\ Len(invoked) <= 1
    /\ (Dispatched /\ ~NoFacility) =>
          /\ Len(invoked) = 1
          /\ op = "query" =>
                invoked[1] = IF "W" \in aettable[servername] THEN WebFind(level)
                             ELSE "finder"
          /\ op = "fetch" =>
                invoked[1] = IF "W" \in aettable[servername] THEN "rst_ser_level_get"
                             ELSE "getter"
    /\ (op \in {"query", "fetch"} /\ ~(Dispatched /\ ~NoFacility)) => invoked = <<>>

\* A fetch from a server advertising W together with both tool facilities went
\* to the web backend alone.
C10_Witness ==
    /\ Dispatched
    /\ aettable[servername] = {"W", "F", "G"}
    /\ op = "fetch"
    /\ invoked = <<"rst_ser_level_get">>

\* The line geter's loop is at matches one of the two progress patterns.
ProgressLine == curline.kind \in {"C-GET-RSP", "C-STORE-RSP"}

\* C11: the response geter yields for a line that matches the C-GET-RSP or the
\* C-STORE-RSP pattern has as its status the base-16 value of the line's status
\* field, whatever the line's warning count; under fetch, that response is the
\* one fetch holds.
C11_StatusIsHexOfStatusField ==
    ProgressLine =>
        /\ geter_line(curline).status = IntOf(curline.status, 16)
        /\ op = "fetch" => response.status = IntOf(curline.status, 16)

=============================================================================
